---- MODULE Spec2Model ----
(***************************************************************************)
(* gpiod-isr.h: interrupt emulation over libgpiod line events.             *)
(*                                                                         *)
(* One watcher pthread per ISR handle blocks on the line event queue and   *)
(* calls the user handler.  The caller side (request / release / change)   *)
(* runs concurrently with the watchers; release and change block in        *)
(* pthread_join, so they are modelled as several steps.                    *)
(*                                                                         *)
(* The GPIO chip (libgpiod + kernel) is the collaborator: a line is FREE   *)
(* or requested for one event kind, a requested line queues the edges      *)
(* that match its kind, and releasing a line drops its queue.              *)
(*                                                                         *)
(* tlc1543.h: access to the TLC1543 converter over three GPIO pins, which  *)
(* it requests for its lifetime or for each sample.                        *)
(***************************************************************************)
EXTENDS Integers, Sequences, FiniteSets, TLC

NumLines == 2
MaxHandles == 2
MaxThreads == 3
MaxEdges == 2
PairEdges == 1
QueueCap == 2

Lines == 1..NumLines
HandleIds == 1..MaxHandles
ThreadIds == 1..MaxThreads

\* GPIOD_LINE_REQUEST_EVENT_{RISING_EDGE,FALLING_EDGE,BOTH_EDGES}
ReqKinds == {"RISING", "FALLING", "BOTH"}
\* a request type that is not an event request (e.g. DIRECTION_INPUT)
BadKind == "BAD"
\* event_type == -1 of gpiod_isr_change_event: keep the current kind
KeepKind == "KEEP"
\* the user handlers, and the NULL function pointer
Handlers == {"f", "g"}
NullHandler == "NULL"
\* the consumer label given by the caller of request, and gpiod_line_name()
Consumer == "app"
LineName == "gpio"

\* the sets of lines (struct gpiod_line_bulk) handed to the bulk functions
Bulks == { [i \in 1..n |-> a + i - 1] : a \in Lines, n \in 2..NumLines } \cap Seq(Lines)

Range(s) == { s[i] : i \in 1..Len(s) }

NoEvent == [kind |-> "none", seq |-> 0]
\* io is the history of the watcher's calls into the chip: "ok", or the call
\* ("wait", "read") that reported an error and has not succeeded since.
\* The history of the wake of a bulk watcher that is under way: woke, the
\* lines the wait reported; skipped, those of them whose read failed; base,
\* the number of handler invocations made before the wake.
NoThread == [isr |-> 0, pc |-> "none", ev |-> NoEvent, ln |-> 0, evb |-> <<>>,
             cancel |-> FALSE, io |-> "ok", woke |-> <<>>, skipped |-> {}, base |-> 0]
NoHandle == [st |-> "unused", bulk |-> FALSE, lines |-> <<>>, handler |-> NullHandler,
             event_type |-> "NONE", thread |-> 0, err |-> "none"]
\* a freed object: its fields are gone
Freed == [NoHandle EXCEPT !.st = "freed"]
FreeLine == [req |-> "FREE", consumer |-> ""]
Idle == [pc |-> "idle", et |-> KeepKind, hd |-> NullHandler]
\* the NULL line pointer
NullLine == 0
\* arg: the arguments of the call that returns (kept for request, and for a
\* change that succeeds); chip: whether the call got as far as asking the chip
\* for the lines
NoArgs == [lines |-> <<>>, event_type |-> "NONE", handler |-> NullHandler]
NoReturn == [op |-> "none", h |-> 0, res |-> "none", arg |-> NoArgs, chip |-> FALSE]

\* tlc1543.h: the pins of the converter, TLC1543_OPT_WAIT and
\* TLC1543_OPT_EXCLUSIVE, and the channel numbers the callers pass
Pins == {"ioclk", "addr", "data"}
TlcOptions == SUBSET {"WAIT", "EXCLUSIVE"}
Channels == {0, 14}
\* A struct tlc1543 before tlc1543_init.  st: "none", "open" (the chip is open
\* but init has failed), "init" (init has returned 0), "closed" (deleted);
\* pin: each pin is free, requested through this struct ("tlc") or in use
\* by another consumer ("other"); call, pc: the call that runs and where it
\* is; ret: what the last call returned
NoAdc ==
    [st |-> "none", options |-> {}, pin |-> [p \in Pins |-> "free"],
     call |-> "none", pc |-> "idle", ret |-> "none"]

VARIABLES
    lineSt,     \* chip: per line, the event kind it is requested for (or FREE) and the consumer
    queue,      \* chip: per line, the events waiting to be read (kernel fifo of the request)
    reported,   \* history: per line, the events reported to the watcher that runs now
    nedges,     \* history: the number of edges the hardware has produced
    hnd,        \* struct gpiod_isr / gpiod_isr_bulk objects; st is the caller's view of the
                \* handle, err the history of it: the step ("reserve", "spawn") at which a
                \* change of it has failed after the join
    thr,        \* the pthreads created so far
    op,         \* per handle, the release / change call that is blocked in it
    delivered,  \* history: per handle, the handler invocations of the watcher that runs now
    last,       \* the API call that returns in this step, and its result
    adc         \* tlc1543.h: the struct tlc1543, the call running on it and the three
                \* GPIO pins it uses

vars == <<lineSt, queue, reported, nedges, hnd, thr, op, delivered, last, adc>>

Init ==
    /\ lineSt = [l \in Lines |-> FreeLine]
    /\ queue = [l \in Lines |-> <<>>]
    /\ reported = [l \in Lines |-> <<>>]
    /\ nedges = 0
    /\ hnd = [h \in HandleIds |-> NoHandle]
    /\ thr = [t \in ThreadIds |-> NoThread]
    /\ op = [h \in HandleIds |-> Idle]
    /\ delivered = [h \in HandleIds |-> <<>>]
    /\ last = NoReturn
    /\ adc = NoAdc

\* A returned result is read by the caller before anything else happens
Ready == last = NoReturn

----------------------------------------------------------------------------
(* The collaborator *)

\* an edge of kind k is reported on a line requested for kind req
Matches(req, k) ==
    \/ req = "BOTH"
    \/ req = "RISING" /\ k = "rising"
    \/ req = "FALLING" /\ k = "falling"

\* gpiod_line_request_*_events / gpiod_line_request_bulk_*_events succeed only
\* when every line is free; nothing is requested otherwise
LinesFree(ls, lines) == \A l \in Range(lines) : ls[l].req = "FREE"

LineRequest(ls, lines, consumer, et) ==
    [l \in Lines |-> IF l \in Range(lines) THEN [req |-> et, consumer |-> consumer] ELSE ls[l]]

\* gpiod_line_release / gpiod_line_release_bulk: a no-op on a free line
LineRelease(ls, lines) ==
    [l \in Lines |-> IF l \in Range(lines) THEN FreeLine ELSE ls[l]]

Drop(q, lines) ==
    [l \in Lines |-> IF l \in Range(lines) THEN <<>> ELSE q[l]]

\* The scripted hardware: the n-th edge is falling when n is odd, rising when
\* n is even
EdgeKind(n) == IF n % 2 = 1 THEN "falling" ELSE "rising"

\* The hardware produces its next edge, on line l.  The chip reports it
\* (queues it) when the line is requested for that kind and its fifo has room;
\* otherwise the edge is lost in the chip.
Edge(l) ==
    LET e == [kind |-> EdgeKind(nedges + 1), seq |-> nedges + 1]
    IN  /\ Ready /\ UNCHANGED adc
        /\ nedges' = nedges + 1
        /\ IF Matches(lineSt[l].req, e.kind) /\ Len(queue[l]) < QueueCap
             THEN /\ queue' = [queue EXCEPT ![l] = Append(@, e)]
                  /\ reported' = [reported EXCEPT ![l] = Append(@, e)]
             ELSE UNCHANGED <<queue, reported>>
        /\ last' = NoReturn
        /\ UNCHANGED <<lineSt, hnd, thr, op, delivered>>

----------------------------------------------------------------------------
(* Threads *)

Live(t) == thr[t].pc \notin {"none", "stopped"}
\* A thread with a cancellation request pending is about to end: the steps of
\* its loop that it could still take before the signal reaches it are the
\* same as steps taken just before pthread_cancel was called
Running(t, pc) == thr[t].pc = pc /\ ~thr[t].cancel
\* pthread_join has not returned yet for thread t
Unjoined(t) == \E h \in HandleIds : op[h].pc \in {"rel_join", "chg_join"} /\ hnd[h].thread = t
\* The pthread_t that pthread_create stores for a new watcher of handle h: one
\* never used before, or the value of a thread that has been joined.  A reused
\* value makes a difference only when another handle still holds it.
FreeThread(t, h) ==
    \/ thr[t].pc = "none" /\ \A u \in ThreadIds : u < t => thr[u].pc # "none"
    \/ /\ thr[t].pc = "stopped"
       /\ ~Unjoined(t)
       /\ \E g \in HandleIds \ {h} : hnd[g].st \in {"watching", "failed"} /\ hnd[g].thread = t
FreeHandle(h) == hnd[h].st = "unused" /\ \A g \in HandleIds : g < h => hnd[g].st # "unused"

\* pthread_create(&isr->thread, NULL, watcher, isr)
Spawn(th, t, h) == [th EXCEPT ![t] = [NoThread EXCEPT !.isr = h, !.pc = "wait"]]

\* pthread_cancel(isr->thread) returning 0: the request is pending on the
\* thread that has this id and still runs; on the id of a thread already
\* joined, and not in use again, it has no effect
Cancel(th, t) ==
    [u \in ThreadIds |-> IF u = t /\ th[u].pc \notin {"none", "stopped"}
                           THEN [th[u] EXCEPT !.cancel = TRUE] ELSE th[u]]

\* Seeded fault (sensitivity of C1): the caller does not wait for the watcher
JoinDetached(t) == TRUE

\* Seeded fault (sensitivity of C2): the caller goes on as soon as the
\* cancellation is requested
JoinCancelRequested(t) == thr[t].pc = "stopped" \/ thr[t].cancel

\* Seeded fault (sensitivity of C22 and C36): the caller waits for the watchers of
\* every handle, not for the one of its own
JoinAll(t) == \A u \in ThreadIds : thr[u].pc \in {"none", "stopped"}

\* pthread_join(isr->thread, NULL) returns
Joined(t) == thr[t].pc = "stopped"

----------------------------------------------------------------------------
(* The watcher threads *)

\* a thread that has ended; nothing of it is left but what it met (history)
Stopped(w) == [NoThread EXCEPT !.pc = "stopped", !.io = w.io]

\* _gpiod_event_watcher: gpiod_line_event_wait(isr->line, NULL) returned 1 and
\* gpiod_line_event_read(isr->line, &event) returned 0.  While the queue is
\* empty the wait blocks (or fails and is retried): no step.
gpiod_event_watcher_read(t) ==
    LET h == thr[t].isr
        l == hnd[h].lines[1]
    IN  /\ Ready /\ UNCHANGED adc /\ Running(t, "wait")
        /\ ~hnd[h].bulk
        /\ queue[l] # <<>>
        /\ queue' = [queue EXCEPT ![l] = Tail(@)]
        /\ thr' = [thr EXCEPT ![t].pc = "dispatch", ![t].ev = Head(queue[l]), ![t].ln = l,
                              ![t].io = "ok"]
        /\ last' = NoReturn
        /\ UNCHANGED <<lineSt, reported, nedges, hnd, op, delivered>>

\* gpiod_line_event_wait(isr->line, NULL) returned -1 (an error of the chip or
\* of the OS): the "while (... != 1) ;" calls it again
gpiod_event_watcher_wait_error(t) ==
    /\ Ready /\ UNCHANGED adc /\ Running(t, "wait")
    /\ ~hnd[thr[t].isr].bulk
    /\ thr' = [thr EXCEPT ![t].io = "wait"]
    /\ last' = NoReturn
    /\ UNCHANGED <<lineSt, queue, reported, nedges, hnd, op, delivered>>

\* gpiod_line_event_read(isr->line, &event) returned -1: the event stays where
\* it is, the handler is not called and the loop goes back to the wait
gpiod_event_watcher_read_error(t) ==
    /\ Ready /\ UNCHANGED adc /\ Running(t, "wait")
    /\ ~hnd[thr[t].isr].bulk
    /\ queue[hnd[thr[t].isr].lines[1]] # <<>>
    /\ thr' = [thr EXCEPT ![t].io = "read"]
    /\ last' = NoReturn
    /\ UNCHANGED <<lineSt, queue, reported, nedges, hnd, op, delivered>>

\* Seeded fault (sensitivity of C10): the test on the result of the read is
\* inverted, an event that was read is not handed to the handler
gpiod_event_watcher_drop(t) ==
    /\ Ready /\ UNCHANGED adc /\ Running(t, "dispatch")
    /\ ~hnd[thr[t].isr].bulk
    /\ thr' = [thr EXCEPT ![t].pc = "wait", ![t].ev = NoEvent, ![t].ln = 0]
    /\ last' = NoReturn
    /\ UNCHANGED <<lineSt, queue, reported, nedges, hnd, op, delivered>>

\* Seeded fault (sensitivity of C31): the watcher calls the handler that was
\* given to the request of the handle
FirstHandler(isr) == "f"

\* "isr->handler": the function the watcher calls is read from the handle at
\* each call
WatcherHandler(isr) == isr.handler

\* isr->handler(isr->line, &event): the handler is entered
gpiod_event_watcher_call(t) ==
    LET h == thr[t].isr
    IN  /\ Ready /\ UNCHANGED adc /\ Running(t, "dispatch")
        /\ ~hnd[h].bulk
        /\ delivered' = [delivered EXCEPT ![h] =
               Append(@, [handler |-> WatcherHandler(hnd[h]), line |-> hnd[h].lines[1],
                          ev |-> thr[t].ev])]
        /\ thr' = [thr EXCEPT ![t].pc = "handler"]
        /\ last' = NoReturn
        /\ UNCHANGED <<lineSt, queue, reported, nedges, hnd, op>>

\* the handler returns, the loop goes back to the wait
gpiod_event_watcher_return(t) ==
    /\ Ready /\ UNCHANGED adc /\ Running(t, "handler")
    /\ ~hnd[thr[t].isr].bulk
    /\ thr' = [thr EXCEPT ![t].pc = "wait", ![t].ev = NoEvent, ![t].ln = 0]
    /\ last' = NoReturn
    /\ UNCHANGED <<lineSt, queue, reported, nedges, hnd, op, delivered>>

\* Seeded fault (sensitivity of C16): the loop over event_bulk ends after its
\* first line
NextPcWait(evb) == "wait"

\* After one delivery: a single-line watcher waits again, a bulk watcher goes
\* on with the next ready line of this wake
NextPc(evb) == IF evb = <<>> THEN "wait" ELSE "iter"

\* ++i in the loop over event_bulk: the next ready line, or the end of the
\* wake and back to the wait
BulkNext(w) ==
    LET pc == NextPc(Tail(w.evb))
    IN  IF pc = "wait"
          THEN [w EXCEPT !.pc = pc, !.evb = Tail(@), !.ev = NoEvent, !.ln = 0,
                         !.woke = <<>>, !.skipped = {}, !.base = 0]
          ELSE [w EXCEPT !.pc = pc, !.evb = Tail(@), !.ev = NoEvent, !.ln = 0]

\* Seeded fault (sensitivity of C17): a failed read ends the thread, as the
\* earlier revision of the watcher did
bulk_read_fatal(w) == Stopped(w)

\* gpiod_line_event_read(event_bulk.lines[i], &event) returned -1: the handler
\* is not called for this line and the loop goes on
bulk_read_failed(w) ==
    BulkNext([w EXCEPT !.skipped = @ \cup {Head(w.evb)}, !.io = "read"])

\* gpiod_line_event_wait_bulk(isr->lines, NULL, &event_bulk) returned 1:
\* event_bulk holds the lines of the set that have an event, in the set's order
gpiod_event_watcher_bulk_wake(t) ==
    LET h == thr[t].isr
        HasEvent(l) == queue[l] # <<>>
    IN  /\ Ready /\ UNCHANGED adc /\ Running(t, "wait")
        /\ hnd[h].bulk
        /\ \E l \in Range(hnd[h].lines) : HasEvent(l)
        /\ thr' = [thr EXCEPT ![t].pc = "iter", ![t].evb = SelectSeq(hnd[h].lines, HasEvent),
                              ![t].woke = SelectSeq(hnd[h].lines, HasEvent),
                              ![t].skipped = {}, ![t].base = Len(delivered[h]),
                              ![t].io = "ok"]
        /\ last' = NoReturn
        /\ UNCHANGED <<lineSt, queue, reported, nedges, hnd, op, delivered>>

\* gpiod_line_event_read(event_bulk.lines[i], &event): 0 with the line's first
\* event; an error when the line has been released meanwhile, and then the
\* line is skipped; it blocks on a requested line whose queue is empty
gpiod_event_watcher_bulk_read(t) ==
    LET l == Head(thr[t].evb)
    IN  /\ Ready /\ UNCHANGED adc /\ Running(t, "iter")
        /\ hnd[thr[t].isr].bulk
        /\ IF queue[l] # <<>>
             THEN /\ queue' = [queue EXCEPT ![l] = Tail(@)]
                  /\ thr' = [thr EXCEPT ![t].pc = "dispatch", ![t].ev = Head(queue[l]),
                                        ![t].ln = l, ![t].io = "ok"]
             ELSE /\ lineSt[l].req = "FREE"
                  /\ thr' = [thr EXCEPT ![t] = bulk_read_failed(@)]
                  /\ UNCHANGED queue
        /\ last' = NoReturn
        /\ UNCHANGED <<lineSt, reported, nedges, hnd, op, delivered>>

\* the same read fails on a line that has its event (an error of the chip or
\* of the OS): the event stays where it is
gpiod_event_watcher_bulk_read_error(t) ==
    /\ Ready /\ UNCHANGED adc /\ Running(t, "iter")
    /\ hnd[thr[t].isr].bulk
    /\ queue[Head(thr[t].evb)] # <<>>
    /\ thr' = [thr EXCEPT ![t] = bulk_read_failed(@)]
    /\ last' = NoReturn
    /\ UNCHANGED <<lineSt, queue, reported, nedges, hnd, op, delivered>>

\* gpiod_line_event_wait_bulk returned -1: the "while (... != 1) ;" calls it again
gpiod_event_watcher_bulk_wait_error(t) ==
    /\ Ready /\ UNCHANGED adc /\ Running(t, "wait")
    /\ hnd[thr[t].isr].bulk
    /\ thr' = [thr EXCEPT ![t].io = "wait"]
    /\ last' = NoReturn
    /\ UNCHANGED <<lineSt, queue, reported, nedges, hnd, op, delivered>>

\* isr->handler(event_bulk.lines[i], &event): the handler is entered
gpiod_event_watcher_bulk_call(t) ==
    LET h == thr[t].isr
    IN  /\ Ready /\ UNCHANGED adc /\ Running(t, "dispatch")
        /\ hnd[h].bulk
        /\ delivered' = [delivered EXCEPT ![h] =
               Append(@, [handler |-> WatcherHandler(hnd[h]), line |-> thr[t].ln,
                          ev |-> thr[t].ev])]
        /\ thr' = [thr EXCEPT ![t].pc = "handler"]
        /\ last' = NoReturn
        /\ UNCHANGED <<lineSt, queue, reported, nedges, hnd, op>>

\* the handler returns: next ready line of this wake, or back to the wait
gpiod_event_watcher_bulk_return(t) ==
    /\ Ready /\ UNCHANGED adc /\ Running(t, "handler")
    /\ hnd[thr[t].isr].bulk
    /\ thr' = [thr EXCEPT ![t] = BulkNext(@)]
    /\ last' = NoReturn
    /\ UNCHANGED <<lineSt, queue, reported, nedges, hnd, op, delivered>>

\* The cancellation type is asynchronous: a pending cancellation request ends
\* the thread wherever it is, the handler body included
Cancelled(t) ==
    /\ Ready /\ UNCHANGED adc
    /\ Live(t)
    /\ thr[t].cancel
    /\ thr' = [thr EXCEPT ![t] = Stopped(@)]
    /\ last' = NoReturn
    /\ UNCHANGED <<lineSt, queue, reported, nedges, hnd, op, delivered>>

----------------------------------------------------------------------------
(* The API: request *)

Return(name, h, res) == [NoReturn EXCEPT !.op = name, !.h = h, !.res = res]

\* the call that returns is a request, of a line or of a set of lines
IsRequest(r) == r.op \in {"request", "request_bulk"}

\* a NULL line pointer, or a NULL pointer to a set of lines
IsNull(lines) == lines = <<>> \/ lines = <<NullLine>>

\* the place in the set of the first line that the chip refuses, because it
\* is in use or, with chip_ok = FALSE, because of an I/O error that strikes at
\* the last line; 0 when every line is granted
FirstRefused(ls, lines, chip_ok) ==
    LET B == { i \in 1..Len(lines) : ls[lines[i]].req # "FREE" }
    IN  IF B # {} THEN CHOOSE i \in B : \A j \in B : i <= j
        ELSE IF chip_ok THEN 0 ELSE Len(lines)

\* Seeded fault (sensitivity of C15): the lines granted before the refused one
\* stay requested
bulk_keep(ls, lines) == ls

\* libgpiod requests the lines of a set one after the other and, when one is
\* refused, releases those it was granted
bulk_undo(ls, lines) == LineRelease(ls, lines)

\* Seeded fault (sensitivity of C18): no default case in the switch
event_kind_any(event_type) == TRUE

\* the cases of the switch on event_type
event_kind_known(event_type) == event_type \in ReqKinds

\* _gpiod_request_event / _gpiod_request_bulk_event: the libgpiod request that
\* matches event_type, EINVAL without a call of libgpiod for anything that is
\* not an event request.  chip_ok = FALSE is a chip I/O error.  The result is
\* the error, the chip's line states after the call, and whether libgpiod was
\* called.
gpiod_request_event(ls, lines, consumer, event_type, chip_ok) ==
    LET k == FirstRefused(ls, lines, chip_ok)
        granted == SubSeq(lines, 1, k - 1)
    IN  IF ~event_kind_known(event_type)
          THEN [err |-> "EINVAL", ls |-> ls, tried |-> FALSE]
          ELSE IF k = 0
                 THEN [err |-> "OK", ls |-> LineRequest(ls, lines, consumer, event_type),
                       tried |-> TRUE]
                 ELSE [err |-> "EBUSY", tried |-> TRUE,
                       ls |-> bulk_undo(LineRequest(ls, granted, consumer, event_type),
                                        granted)]

\* Seeded fault (sensitivity of C4): the error paths forget the reservation
request_leak(ls, lines) == ls

\* The error paths after the reservation: "gpiod_line_release(line); return NULL"
request_undo(ls, lines) == LineRelease(ls, lines)

\* gpiod_isr_request_events and gpiod_isr_request_bulk_events (same body over
\* a line or a set of lines).  fault injects the failure of one step:
\* "chip" (reservation), "malloc", "spawn" (pthread_create).
isr_request_events(bulk, lines, event_type, handler, fault) ==
    LET r == gpiod_request_event(lineSt, lines, Consumer, event_type, fault # "chip")
        Ret(h, res, tried) ==
            [Return(IF bulk THEN "request_bulk" ELSE "request", h, res) EXCEPT
                !.arg = [lines |-> lines, event_type |-> event_type, handler |-> handler],
                !.chip = tried]
    IN  /\ Ready /\ UNCHANGED adc
        /\ IF IsNull(lines) \/ handler = NullHandler
             THEN /\ last' = Ret(0, "EINVAL", FALSE)
                  /\ UNCHANGED <<lineSt, queue, reported, nedges, hnd, thr, op, delivered>>
           ELSE IF r.err # "OK"
             THEN /\ lineSt' = r.ls
                  /\ last' = Ret(0, r.err, r.tried)
                  /\ UNCHANGED <<queue, reported, nedges, hnd, thr, op, delivered>>
           ELSE IF fault = "malloc"
             THEN /\ lineSt' = request_undo(r.ls, lines)
                  /\ last' = Ret(0, "ENOMEM", TRUE)
                  /\ UNCHANGED <<queue, reported, nedges, hnd, thr, op, delivered>>
           ELSE IF fault = "spawn"
             THEN /\ lineSt' = request_undo(r.ls, lines)
                  /\ last' = Ret(0, "EAGAIN", TRUE)
                  /\ UNCHANGED <<queue, reported, nedges, hnd, thr, op, delivered>>
           ELSE \E h \in HandleIds, t \in ThreadIds :
                  /\ FreeHandle(h)
                  /\ FreeThread(t, h)
                  /\ lineSt' = r.ls
                  /\ hnd' = [hnd EXCEPT ![h] = [st |-> "watching", bulk |-> bulk, lines |-> lines,
                                                handler |-> handler, event_type |-> event_type,
                                                thread |-> t, err |-> "none"]]
                  /\ thr' = Spawn(thr, t, h)
                  /\ last' = Ret(h, "OK", TRUE)
                  /\ UNCHANGED <<queue, reported, nedges, op, delivered>>

gpiod_isr_request_events(line, event_type, handler, fault) ==
    isr_request_events(FALSE, <<line>>, event_type, handler, fault)

gpiod_isr_request_bulk_events(lines, event_type, handler, fault) ==
    isr_request_events(TRUE, lines, event_type, handler, fault)

----------------------------------------------------------------------------
(* The API: release *)

\* A call on a handle needs a pointer to a gpiod_isr object that has not been
\* freed, and no other call running on it
Callable(bulk, h) ==
    /\ hnd[h].st \in {"watching", "failed"}
    /\ hnd[h].bulk = bulk
    /\ op[h].pc = "idle"

\* Seeded fault (sensitivity of C35): the result of pthread_cancel is not
\* looked at and the release goes on to gpiod_line_release
release_cancel_ignored(ls, lines) == LineRelease(ls, lines)

\* "if (pthread_cancel(isr->thread) != 0) return -1;": the release ends here,
\* before gpiod_line_release; ls is the chip state it leaves
release_cancel_failed(ls, lines) == ls

\* gpiod_isr_release / gpiod_isr_release_bulk up to pthread_join.  h = 0 is the
\* NULL pointer.  cancel_ok is the result of pthread_cancel: it can fail on a
\* running thread (the signal cannot be queued), and on the id of a thread
\* that was joined before its behaviour is undefined (an error, or 0).
isr_release_begin(bulk, h, cancel_ok) ==
    /\ Ready /\ UNCHANGED adc
    /\ IF h = 0
         THEN /\ last' = Return("release", 0, "EINVAL")
              /\ UNCHANGED <<lineSt, queue, reported, nedges, hnd, thr, op, delivered>>
         ELSE /\ Callable(bulk, h)
              /\ IF ~cancel_ok
                   THEN /\ last' = Return("release", h, "ECANCEL")
                        /\ lineSt' = release_cancel_failed(lineSt, hnd[h].lines)
                        /\ UNCHANGED <<queue, reported, nedges, hnd, thr, op, delivered>>
                   ELSE /\ thr' = Cancel(thr, hnd[h].thread)
                        /\ op' = [op EXCEPT ![h].pc = "rel_join"]
                        /\ last' = NoReturn
                        /\ UNCHANGED <<lineSt, queue, reported, nedges, hnd, delivered>>

\* pthread_join returns; gpiod_line_release; free(isr); return 0
isr_release_end(bulk, h) ==
    /\ Ready /\ UNCHANGED adc
    /\ hnd[h].bulk = bulk
    /\ op[h].pc = "rel_join"
    /\ Joined(hnd[h].thread)
    /\ lineSt' = LineRelease(lineSt, hnd[h].lines)
    /\ queue' = Drop(queue, hnd[h].lines)
    /\ reported' = Drop(reported, hnd[h].lines)
    /\ hnd' = [hnd EXCEPT ![h] = Freed]
    /\ delivered' = [delivered EXCEPT ![h] = <<>>]
    /\ op' = [op EXCEPT ![h] = Idle]
    /\ last' = Return("release", h, "OK")
    /\ UNCHANGED <<nedges, thr>>

\* gpiod_isr_release called with a pointer that a release has freed: every
\* field is read from freed memory, which is undefined.  What the build does
\* with it: pthread_cancel on what isr->thread holds, the id of a joined
\* thread, reports an error ("error"); or it returns 0 without effect,
\* pthread_join returns at once, gpiod_line_release is called on what
\* isr->line holds (some line l of the chip, reserved again or not) and
\* free(isr) either returns ("done") or ends the process ("abort").
gpiod_isr_release_again(h, outcome, l) ==
    /\ Ready /\ UNCHANGED adc
    /\ hnd[h].st = "freed"
    /\ IF outcome = "error"
         THEN /\ last' = Return("release", h, "ECANCEL")
              /\ UNCHANGED <<lineSt, queue, reported>>
         ELSE /\ lineSt' = LineRelease(lineSt, <<l>>)
              /\ queue' = Drop(queue, <<l>>)
              /\ reported' = Drop(reported, <<l>>)
              /\ last' = Return("release", h, IF outcome = "done" THEN "OK" ELSE "ABORT")
    /\ UNCHANGED <<nedges, hnd, thr, op, delivered>>

gpiod_isr_release(h, cancel_ok) == isr_release_begin(FALSE, h, cancel_ok)
gpiod_isr_release_join(h) == isr_release_end(FALSE, h)
gpiod_isr_release_bulk(h, cancel_ok) == isr_release_begin(TRUE, h, cancel_ok)
gpiod_isr_release_bulk_join(h) == isr_release_end(TRUE, h)

----------------------------------------------------------------------------
(* The API: change (reconfigure) *)

\* "Do nothing if there is nothing to change."
NothingToChange(isr, event_type, handler) ==
    \/ handler = NullHandler /\ (event_type = KeepKind \/ isr.event_type = event_type)
    \/ handler = isr.handler /\ isr.event_type = event_type

\* Seeded fault (sensitivity of C25): every change releases the line and
\* requests it again
AlwaysChanges(isr, event_type) == TRUE

\* "Change event": the condition under which the line is released and
\* requested again
EventChanges(isr, event_type) == event_type # KeepKind /\ isr.event_type # event_type

\* "Change handler"
NewHandler(isr, handler) ==
    IF handler # NullHandler /\ isr.handler # handler THEN handler ELSE isr.handler

\* The arguments of a change call, as far as the rest of the call depends on
\* them: a kind equal to the current one is the same as -1, a handler equal to
\* the current one the same as NULL
ChangeArgs(isr, event_type, handler) ==
    [pc |-> "chg_join",
     et |-> IF EventChanges(isr, event_type) THEN event_type ELSE KeepKind,
     hd |-> IF NewHandler(isr, handler) # isr.handler THEN handler ELSE NullHandler]

\* "return 0" of a change, with the arguments it was called with
ChangeDone(h, event_type, handler) ==
    [Return("change", h, "OK") EXCEPT
        !.arg = [lines |-> <<>>, event_type |-> event_type, handler |-> handler]]

\* Seeded fault (sensitivity of C19): the new kind is requested from the chip
\* but not stored in the handle
OldEventType(isr, event_type) == isr.event_type

\* "isr->event_type = event_type"
NewEventType(isr, event_type) == event_type

\* gpiod_isr_change_event / gpiod_isr_change_bulk_event up to pthread_join
isr_change_begin(bulk, h, event_type, handler, cancel_ok) ==
    /\ Ready /\ UNCHANGED adc
    /\ IF h = 0
         THEN /\ last' = Return("change", 0, "EINVAL")
              /\ UNCHANGED <<lineSt, queue, reported, nedges, hnd, thr, op, delivered>>
         ELSE /\ Callable(bulk, h)
              /\ IF NothingToChange(hnd[h], event_type, handler)
                   THEN /\ last' = ChangeDone(h, ChangeArgs(hnd[h], event_type, handler).et,
                                             ChangeArgs(hnd[h], event_type, handler).hd)
                        /\ UNCHANGED <<lineSt, queue, reported, nedges, hnd, thr, op, delivered>>
                 ELSE IF ~cancel_ok
                   THEN /\ last' = Return("change", h, "ECANCEL")
                        /\ UNCHANGED <<lineSt, queue, reported, nedges, hnd, thr, op, delivered>>
                   ELSE /\ thr' = Cancel(thr, hnd[h].thread)
                        /\ op' = [op EXCEPT ![h] = ChangeArgs(hnd[h], event_type, handler)]
                        /\ last' = NoReturn
                        /\ UNCHANGED <<lineSt, queue, reported, nedges, hnd, delivered>>

\* The histories start again with a new watcher of the lines: what is in the
\* queues is what it has to deliver
Rebase(q, rep, lines) ==
    [l \in Lines |-> IF l \in Range(lines) THEN q[l] ELSE rep[l]]

\* The end of change: the handler is changed, then pthread_create; when it
\* fails the line is released and -1 returned.  ls is the chip state and
\* event_type the handle's kind at that point.
isr_change_finish(h, ls, q, event_type, spawn_ok) ==
    LET isr == [hnd[h] EXCEPT !.event_type = event_type,
                              !.handler = NewHandler(hnd[h], op[h].hd)]
    IN  /\ op' = [op EXCEPT ![h] = Idle]
        /\ IF spawn_ok
             THEN \E t \in ThreadIds :
                    /\ FreeThread(t, h)
                    /\ thr' = Spawn(thr, t, h)
                    /\ hnd' = [hnd EXCEPT ![h] = [isr EXCEPT !.thread = t, !.st = "watching"]]
                    /\ lineSt' = ls
                    /\ queue' = q
                    /\ reported' = Rebase(q, reported, isr.lines)
                    /\ delivered' = [delivered EXCEPT ![h] = <<>>]
                    /\ last' = ChangeDone(h, op[h].et, op[h].hd)
             ELSE /\ hnd' = [hnd EXCEPT ![h] = [isr EXCEPT !.st = "failed", !.err = "spawn"]]
                  /\ lineSt' = LineRelease(ls, isr.lines)
                  /\ queue' = Drop(q, isr.lines)
                  /\ reported' = Drop(reported, isr.lines)
                  /\ last' = Return("change", h, "EAGAIN")
                  /\ UNCHANGED <<thr, delivered>>

\* pthread_join returns.  When the event kind changes the line is released
\* (the request that follows is a separate call into the chip, see
\* isr_change_request); otherwise the call goes on to its end.
isr_change_join(bulk, h, spawn_ok) ==
    /\ Ready /\ UNCHANGED adc
    /\ hnd[h].bulk = bulk
    /\ op[h].pc = "chg_join"
    /\ Joined(hnd[h].thread)
    /\ IF EventChanges(hnd[h], op[h].et)
         THEN /\ lineSt' = LineRelease(lineSt, hnd[h].lines)
              /\ queue' = Drop(queue, hnd[h].lines)
              /\ reported' = Drop(reported, hnd[h].lines)
              /\ op' = [op EXCEPT ![h].pc = "chg_request"]
              /\ last' = NoReturn
              /\ UNCHANGED <<hnd, thr, delivered>>
         ELSE isr_change_finish(h, lineSt, queue, hnd[h].event_type, spawn_ok)
    /\ UNCHANGED nedges

\* _gpiod_request_event(isr->line, gpiod_line_name(isr->line), event_type),
\* return -1 when it fails, else isr->event_type = event_type and the end
isr_change_request(bulk, h, chip_ok, spawn_ok) ==
    LET r == gpiod_request_event(lineSt, hnd[h].lines, LineName, op[h].et, chip_ok)
    IN  /\ Ready /\ UNCHANGED adc
        /\ hnd[h].bulk = bulk
        /\ op[h].pc = "chg_request"
        /\ IF r.err # "OK"
             THEN /\ hnd' = [hnd EXCEPT ![h].st = "failed", ![h].err = "reserve"]
                  /\ op' = [op EXCEPT ![h] = Idle]
                  /\ lineSt' = r.ls
                  /\ last' = Return("change", h, r.err)
                  /\ UNCHANGED <<queue, reported, thr, delivered>>
             ELSE isr_change_finish(h, r.ls, queue, NewEventType(hnd[h], op[h].et), spawn_ok)
        /\ UNCHANGED nedges

gpiod_isr_change_event(h, event_type, handler, cancel_ok) ==
    isr_change_begin(FALSE, h, event_type, handler, cancel_ok)
gpiod_isr_change_event_join(h, spawn_ok) == isr_change_join(FALSE, h, spawn_ok)
gpiod_isr_change_event_request(h, chip_ok, spawn_ok) ==
    isr_change_request(FALSE, h, chip_ok, spawn_ok)

gpiod_isr_change_bulk_event(h, event_type, handler, cancel_ok) ==
    isr_change_begin(TRUE, h, event_type, handler, cancel_ok)
gpiod_isr_change_bulk_event_join(h, spawn_ok) == isr_change_join(TRUE, h, spawn_ok)
gpiod_isr_change_bulk_event_request(h, chip_ok, spawn_ok) ==
    isr_change_request(TRUE, h, chip_ok, spawn_ok)

----------------------------------------------------------------------------
(* The API: the functions named after an edge *)

\* Seeded fault (sensitivity of C26): the function for falling edges passes
\* GPIOD_LINE_REQUEST_EVENT_RISING_EDGE
request_falling_as_rising(line, handler, fault) ==
    gpiod_isr_request_events(line, "RISING", handler, fault)

\* "return gpiod_isr_request_events(line, consumer,
\* GPIOD_LINE_REQUEST_EVENT_RISING_EDGE, handler)", and so on
gpiod_isr_request_rising_edge_events(line, handler, fault) ==
    gpiod_isr_request_events(line, "RISING", handler, fault)
gpiod_isr_request_bulk_rising_edge_events(lines, handler, fault) ==
    gpiod_isr_request_bulk_events(lines, "RISING", handler, fault)
gpiod_isr_request_falling_edge_events(line, handler, fault) ==
    gpiod_isr_request_events(line, "FALLING", handler, fault)
gpiod_isr_request_bulk_falling_edge_events(lines, handler, fault) ==
    gpiod_isr_request_bulk_events(lines, "FALLING", handler, fault)
gpiod_isr_request_both_edges_events(line, handler, fault) ==
    gpiod_isr_request_events(line, "BOTH", handler, fault)
gpiod_isr_request_bulk_both_edges_events(lines, handler, fault) ==
    gpiod_isr_request_bulk_events(lines, "BOTH", handler, fault)

\* "return gpiod_isr_change_event(isr, GPIOD_LINE_REQUEST_EVENT_RISING_EDGE,
\* handler)", and so on
gpiod_isr_change_rising_edge_events(h, handler, cancel_ok) ==
    gpiod_isr_change_event(h, "RISING", handler, cancel_ok)
gpiod_isr_change_falling_edge_events(h, handler, cancel_ok) ==
    gpiod_isr_change_event(h, "FALLING", handler, cancel_ok)
gpiod_isr_change_both_edges_events(h, handler, cancel_ok) ==
    gpiod_isr_change_event(h, "BOTH", handler, cancel_ok)
gpiod_isr_change_bulk_rising_edge_events(h, handler, cancel_ok) ==
    gpiod_isr_change_bulk_event(h, "RISING", handler, cancel_ok)
gpiod_isr_change_bulk_falling_edge_events(h, handler, cancel_ok) ==
    gpiod_isr_change_bulk_event(h, "FALLING", handler, cancel_ok)
gpiod_isr_change_bulk_both_edges_events(h, handler, cancel_ok) ==
    gpiod_isr_change_bulk_event(h, "BOTH", handler, cancel_ok)

----------------------------------------------------------------------------
(* tlc1543.h *)

IsrVars == <<lineSt, queue, reported, nedges, hnd, thr, op, delivered, last>>

\* gpiod_line_is_free(line), read as the comment of TLC1543_OPT_WAIT reads it:
\* the pin is used by nobody
gpiod_line_is_free(a, p) == a.pin[p] = "free"

\* the condition of the "while" of TLC1543_OPT_WAIT
tlc1543_wait_condition(a) ==
    /\ ~gpiod_line_is_free(a, "addr")
    /\ ~gpiod_line_is_free(a, "data")
    /\ ~gpiod_line_is_free(a, "ioclk")

\* gpiod_line_release on each of the three lines: a line requested through
\* this struct becomes free, any other is left as it is
tlc1543_release_lines(a) ==
    [a EXCEPT !.pin = [p \in Pins |-> IF a.pin[p] = "tlc" THEN "free" ELSE a.pin[p]]]

\* tlc1543_request_lines is entered by the call named
tlc1543_request_lines(a, call) ==
    [a EXCEPT !.call = call, !.ret = "none",
              !.pc = IF "WAIT" \in a.options THEN "wait" ELSE "ioclk"]

\* tlc1543_request_lines returns r to the call that runs: tlc1543_init does not
\* look at r and returns TLC1543_SUCCESS, tlc1543_get_sample returns
\* TLC1543_ERR_OPEN_LINE when r is negative and goes on otherwise
tlc1543_request_lines_return(a, r) ==
    IF a.call = "init"
      THEN [a EXCEPT !.pc = "idle", !.st = "init", !.ret = "SUCCESS"]
      ELSE IF r # "SUCCESS"
             THEN [a EXCEPT !.pc = "idle", !.ret = "ERR_OPEN_LINE"]
             ELSE [a EXCEPT !.pc = "io"]

\* the order of the requests: ioclk, addr, data
NextPin(p) == CASE p = "ioclk" -> "addr" [] p = "addr" -> "data" [] OTHER -> "done"

\* the "while" of TLC1543_OPT_WAIT ends; as long as its condition holds it
\* spins (no step)
tlc1543_request_lines_wait ==
    /\ adc.pc = "wait"
    /\ ~tlc1543_wait_condition(adc)
    /\ adc' = [adc EXCEPT !.pc = "ioclk"]
    /\ UNCHANGED IsrVars

\* gpiod_line_request_output / gpiod_line_request_input on pin p: it fails on
\* a pin that is not free, and ok tells whether the OS grants it otherwise
tlc1543_request_lines_request(p, ok) ==
    /\ adc.pc = p
    /\ IF ok /\ adc.pin[p] = "free"
         THEN LET a == [adc EXCEPT !.pin[p] = "tlc"]
              IN  adc' = IF NextPin(p) = "done"
                           THEN tlc1543_request_lines_return(a, "SUCCESS")
                           ELSE [a EXCEPT !.pc = NextPin(p)]
         ELSE adc' = tlc1543_request_lines_return(adc, "ERR_OPEN_LINE")
    /\ UNCHANGED IsrVars

\* tlc1543_init_c_i_i_i(tlc, ...), and tlc1543_init_c and tlc1543_init which
\* call it.  null: tlc is NULL; chip_ok, line_ok: gpiod_chip_open and the
\* three gpiod_chip_get_line succeed.
tlc1543_init(null, options, chip_ok, line_ok) ==
    /\ adc.pc = "idle" /\ adc.st \in {"none", "closed"}
    /\ adc' =
         IF null THEN [adc EXCEPT !.call = "init", !.ret = "ERR_ARG"]
         ELSE IF ~chip_ok THEN [adc EXCEPT !.call = "init", !.ret = "ERR_OPEN_CHIP"]
         ELSE IF ~line_ok
           THEN [adc EXCEPT !.call = "init", !.st = "open", !.ret = "ERR_OPEN_LINE"]
         ELSE IF "EXCLUSIVE" \in options
           THEN tlc1543_request_lines([adc EXCEPT !.options = options], "init")
         ELSE [adc EXCEPT !.call = "init", !.options = options, !.st = "init",
                          !.ret = "SUCCESS"]
    /\ UNCHANGED IsrVars

\* tlc1543_delete(tlc)
tlc1543_delete(null) ==
    /\ adc.pc = "idle" /\ adc.st # "closed"
    /\ adc' =
         IF null \/ adc.st = "none"
           THEN [adc EXCEPT !.call = "delete", !.ret = "ERR_NOINIT"]
           ELSE [tlc1543_release_lines(adc) EXCEPT
                    !.call = "delete", !.st = "closed", !.ret = "SUCCESS"]
    /\ UNCHANGED IsrVars

\* tlc1543_get_sample(tlc, channel) up to the clock loops
tlc1543_get_sample(null, channel) ==
    /\ adc.pc = "idle" /\ adc.st \in {"none", "init"}
    /\ adc' =
         IF null \/ adc.st = "none"
           THEN [adc EXCEPT !.call = "sample", !.ret = "ERR_NOINIT"]
         ELSE IF channel > 13
           THEN [adc EXCEPT !.call = "sample", !.ret = "ERR_ARG"]
         ELSE IF "EXCLUSIVE" \notin adc.options
           THEN tlc1543_request_lines(adc, "sample")
         ELSE [adc EXCEPT !.call = "sample", !.ret = "none", !.pc = "io"]
    /\ UNCHANGED IsrVars

\* the two clock loops of tlc1543_get_sample and its end.  outcome: all the
\* gpiod_line_set_value and gpiod_line_get_value succeed ("ok", which needs the
\* three lines requested), or one of them fails and the function returns
\* there, without releasing anything
tlc1543_get_sample_io(outcome) ==
    /\ adc.pc = "io"
    /\ outcome = "ok" => \A p \in Pins : adc.pin[p] = "tlc"
    /\ adc' =
         IF outcome = "ok"
           THEN [(IF "EXCLUSIVE" \notin adc.options
                    THEN tlc1543_release_lines(adc) ELSE adc)
                 EXCEPT !.pc = "idle", !.ret = "SAMPLE"]
           ELSE [adc EXCEPT !.pc = "idle",
                            !.ret = IF outcome = "write" THEN "ERR_WRITE" ELSE "ERR_READ"]
    /\ UNCHANGED IsrVars

\* Another consumer of the GPIO chip requests a pin that is free, or releases
\* one it holds
OtherConsumerRequest(p) ==
    /\ adc.pin[p] = "free"
    /\ adc' = [adc EXCEPT !.pin[p] = "other"]
    /\ UNCHANGED IsrVars

OtherConsumerRelease(p) ==
    /\ adc.pin[p] = "other"
    /\ adc' = [adc EXCEPT !.pin[p] = "free"]
    /\ UNCHANGED IsrVars

----------------------------------------------------------------------------
(* The system *)

\* The arguments the callers pass
Faults == {"none", "chip", "malloc", "spawn"}
RequestKindArgs == {"BOTH", BadKind}
RequestHandlerArgs == {"f", NullHandler}
ChangeKindArgs == {KeepKind, "FALLING", "BOTH", BadKind}
ChangeHandlerArgs == Handlers \cup {NullHandler}

\* The calls on single lines: those that create a handle, and those made with
\* the handles of H or with a NULL pointer
Requests ==
    \E l \in Lines \cup {NullLine}, et \in RequestKindArgs, hd \in RequestHandlerArgs, f \in Faults :
        gpiod_isr_request_events(l, et, hd, f)

Releases(H) ==
    \/ \E h \in H \cup {0}, ok \in BOOLEAN : gpiod_isr_release(h, ok)
    \/ \E h \in H : gpiod_isr_release_join(h)

\* The releases of handles that have been released before
UseAfterFree == {"error", "done", "abort"}
ReleasesAgain ==
    \E h \in HandleIds, o \in UseAfterFree, l \in Lines : gpiod_isr_release_again(h, o, l)

\* HD: the handlers passed
Changes(H, HD) ==
    \/ \E h \in H \cup {0}, et \in ChangeKindArgs, hd \in HD,
          ok \in BOOLEAN : gpiod_isr_change_event(h, et, hd, ok)
    \/ \E h \in H, ok \in BOOLEAN : gpiod_isr_change_event_join(h, ok)
    \/ \E h \in H, c \in BOOLEAN, ok \in BOOLEAN :
           gpiod_isr_change_event_request(h, c, ok)

\* The same for the calls on sets of lines
BulkRequests ==
    \E b \in Bulks \cup {<<>>}, et \in RequestKindArgs, hd \in RequestHandlerArgs, f \in Faults :
        gpiod_isr_request_bulk_events(b, et, hd, f)

BulkReleases(H) ==
    \/ \E h \in H \cup {0}, ok \in BOOLEAN : gpiod_isr_release_bulk(h, ok)
    \/ \E h \in H : gpiod_isr_release_bulk_join(h)

BulkChanges(H, HD) ==
    \/ \E h \in H \cup {0}, et \in ChangeKindArgs, hd \in HD,
          ok \in BOOLEAN : gpiod_isr_change_bulk_event(h, et, hd, ok)
    \/ \E h \in H, ok \in BOOLEAN : gpiod_isr_change_bulk_event_join(h, ok)
    \/ \E h \in H, c \in BOOLEAN, ok \in BOOLEAN :
           gpiod_isr_change_bulk_event_request(h, c, ok)

Watcher ==
    \E t \in ThreadIds :
        \/ gpiod_event_watcher_read(t)
        \/ gpiod_event_watcher_call(t)
        \/ gpiod_event_watcher_return(t)
        \/ Cancelled(t)

\* The errors the chip and the OS report to a single-line watcher
WatcherErrors ==
    \E t \in ThreadIds :
        \/ gpiod_event_watcher_wait_error(t)
        \/ gpiod_event_watcher_read_error(t)

\* The errors the chip and the OS report to a bulk watcher
BulkWatcherErrors ==
    \E t \in ThreadIds :
        \/ gpiod_event_watcher_bulk_wait_error(t)
        \/ gpiod_event_watcher_bulk_read_error(t)

BulkWatcher ==
    \E t \in ThreadIds :
        \/ gpiod_event_watcher_bulk_wake(t)
        \/ gpiod_event_watcher_bulk_read(t)
        \/ gpiod_event_watcher_bulk_call(t)
        \/ gpiod_event_watcher_bulk_return(t)

\* The hardware produces at most n edges
Hardware(n) == nedges < n /\ \E l \in Lines : Edge(l)

\* The caller reads the result of the call that has just returned
Observe ==
    /\ last # NoReturn
    /\ last.res # "ABORT"
    /\ last' = NoReturn
    /\ UNCHANGED <<lineSt, queue, reported, nedges, hnd, thr, op, delivered, adc>>

\* One handle at a time, on a single line or on a set of lines
Single == \A h \in HandleIds : hnd[h].st \in {"unused", "freed"}

Next ==
    \/ Single /\ Requests
    \/ Single /\ BulkRequests
    \/ Releases(HandleIds)
    \/ BulkReleases(HandleIds)
    \/ Changes(HandleIds, ChangeHandlerArgs)
    \/ BulkChanges(HandleIds, ChangeHandlerArgs)
    \/ Watcher
    \/ BulkWatcher
    \/ Hardware(MaxEdges)
    \/ Observe

Spec == Init /\ [][Next]_vars

\* Two handles on single lines: the first is requested, reconfigured (its
\* event kind, not its handler) and released, the second is requested and
\* released
NextPair ==
    \/ Requests
    \/ Releases(HandleIds)
    \/ Changes({1}, RequestHandlerArgs)
    \/ Watcher
    \/ Hardware(PairEdges)
    \/ Observe

SpecPair == Init /\ [][NextPair]_vars

\* One handle at a time, requested and released, with a chip that reports
\* errors to the watcher
NextIo ==
    \/ Single /\ Requests
    \/ Single /\ BulkRequests
    \/ Releases(HandleIds)
    \/ BulkReleases(HandleIds)
    \/ Watcher
    \/ WatcherErrors
    \/ BulkWatcher
    \/ BulkWatcherErrors
    \/ Hardware(MaxEdges)
    \/ Observe

SpecIo == Init /\ [][NextIo]_vars

\* One handle at a time on a single line, with callers that release a handle
\* more than once
NextTwice ==
    \/ Single /\ Requests
    \/ Releases(HandleIds)
    \/ ReleasesAgain
    \/ Watcher
    \/ Hardware(MaxEdges)
    \/ Observe

SpecTwice == Init /\ [][NextTwice]_vars

\* Two handles on single lines with handlers that may never return.  The
\* callers request, release and (the second handle) reconfigure without any
\* fault of the chip or of the OS.  A change is called while a thread id is
\* left for the watcher it starts.
IndepRequests == \E l \in Lines : gpiod_isr_request_events(l, "BOTH", "f", "none")
IndepReleases ==
    \/ \E h \in HandleIds : gpiod_isr_release(h, TRUE)
    \/ \E h \in HandleIds : gpiod_isr_release_join(h)
IndepChanges ==
    \/ /\ thr[MaxThreads].pc = "none"
       /\ \E et \in {KeepKind, "FALLING"} : gpiod_isr_change_event(2, et, "g", TRUE)
    \/ gpiod_isr_change_event_join(2, TRUE)
    \/ gpiod_isr_change_event_request(2, TRUE, TRUE)

NextIndep ==
    \/ IndepRequests
    \/ IndepReleases
    \/ IndepChanges
    \/ Watcher
    \/ Hardware(MaxEdges)
    \/ Observe

\* What thread t does without the handler having to return: it reads an event
\* that is ready, calls the handler, ends on a pending cancellation
ThreadStep(t) ==
    \/ gpiod_event_watcher_read(t)
    \/ gpiod_event_watcher_call(t)
    \/ Cancelled(t)

\* What a call blocked on handle h does once its pthread_join can return
CallStep(h) ==
    \/ gpiod_isr_release_join(h)
    \/ gpiod_isr_change_event_join(h, TRUE)
    \/ gpiod_isr_change_event_request(h, TRUE, TRUE)

\* The OS schedules every thread that can run, and the caller goes on after a
\* call has returned.  The fairness is strong because a step of a thread is
\* disabled for the moment in which a caller reads a result (Ready).  Nothing is
\* assumed about the handler: it may never return.
FairIndep ==
    /\ WF_vars(Observe)
    /\ \A t \in ThreadIds : SF_vars(ThreadStep(t))
    /\ \A h \in HandleIds : SF_vars(CallStep(h))

SpecIndep == Init /\ [][NextIndep]_vars /\ FairIndep

\* One handle on quiet lines, with callers that use the functions named after
\* an edge for every request and every change
NoHandleYet == \A h \in HandleIds : hnd[h].st = "unused"
\* the arguments these callers pass and the faults they meet
ConvFaults == {"none", "chip"}
ConvHandles == {0, 1}
ConvHandlerArgs == {"g", NullHandler}

ConvRequests ==
    \E l \in Lines \cup {NullLine}, hd \in RequestHandlerArgs, f \in ConvFaults :
        \/ gpiod_isr_request_rising_edge_events(l, hd, f)
        \/ gpiod_isr_request_falling_edge_events(l, hd, f)
        \/ gpiod_isr_request_both_edges_events(l, hd, f)

ConvBulkRequests ==
    \E b \in Bulks \cup {<<>>}, hd \in RequestHandlerArgs, f \in ConvFaults :
        \/ gpiod_isr_request_bulk_rising_edge_events(b, hd, f)
        \/ gpiod_isr_request_bulk_falling_edge_events(b, hd, f)
        \/ gpiod_isr_request_bulk_both_edges_events(b, hd, f)

ConvChanges ==
    \/ \E h \in ConvHandles, hd \in ConvHandlerArgs, ok \in BOOLEAN :
          \/ gpiod_isr_change_rising_edge_events(h, hd, ok)
          \/ gpiod_isr_change_falling_edge_events(h, hd, ok)
          \/ gpiod_isr_change_both_edges_events(h, hd, ok)
    \/ \E h \in HandleIds, ok \in BOOLEAN : gpiod_isr_change_event_join(h, ok)
    \/ \E h \in HandleIds, c \in BOOLEAN, ok \in BOOLEAN :
           gpiod_isr_change_event_request(h, c, ok)

ConvBulkChanges ==
    \/ \E h \in ConvHandles, hd \in ConvHandlerArgs, ok \in BOOLEAN :
          \/ gpiod_isr_change_bulk_rising_edge_events(h, hd, ok)
          \/ gpiod_isr_change_bulk_falling_edge_events(h, hd, ok)
          \/ gpiod_isr_change_bulk_both_edges_events(h, hd, ok)
    \/ \E h \in HandleIds, ok \in BOOLEAN : gpiod_isr_change_bulk_event_join(h, ok)
    \/ \E h \in HandleIds, c \in BOOLEAN, ok \in BOOLEAN :
           gpiod_isr_change_bulk_event_request(h, c, ok)

\* The lines are quiet: a watcher waits until it is cancelled
ConvWatcher == \E t \in ThreadIds : Cancelled(t)

NextConv ==
    \/ NoHandleYet /\ ConvRequests
    \/ NoHandleYet /\ ConvBulkRequests
    \/ Releases(HandleIds)
    \/ BulkReleases(HandleIds)
    \/ ConvChanges
    \/ ConvBulkChanges
    \/ ConvWatcher
    \/ Observe

SpecConv == Init /\ [][NextConv]_vars

\* The converter: one struct tlc1543, its callers, and the other consumers of
\* the pins
TlcInits ==
    \E null \in BOOLEAN, o \in TlcOptions, c \in BOOLEAN, l \in BOOLEAN :
        tlc1543_init(null, o, c, l)
TlcDeletes == \E null \in BOOLEAN : tlc1543_delete(null)
TlcSamples ==
    \/ \E null \in BOOLEAN, ch \in Channels : tlc1543_get_sample(null, ch)
    \/ \E o \in {"ok", "write", "read"} : tlc1543_get_sample_io(o)
TlcRequestLines ==
    \/ tlc1543_request_lines_wait
    \/ \E p \in Pins, ok \in BOOLEAN : tlc1543_request_lines_request(p, ok)
OtherConsumers ==
    \E p \in Pins : OtherConsumerRequest(p) \/ OtherConsumerRelease(p)

NextTlc ==
    \/ TlcInits
    \/ TlcDeletes
    \/ TlcSamples
    \/ TlcRequestLines
    \/ OtherConsumers

SpecTlc == Init /\ [][NextTlc]_vars

----------------------------------------------------------------------------
(* The properties *)

\* the watcher threads of handle h that run
WatchersOf(h) == { t \in ThreadIds : Live(t) /\ thr[t].isr = h }

\* C1: once release has returned success for a handle (the handle is freed),
\* the handle has no watcher thread and its handler is not invoked again,
\* whatever edges the hardware produces afterwards
C1_NoInvocationAfterRelease ==
    [][\A h \in HandleIds :
          hnd'[h].st = "freed" =>
              /\ delivered'[h] = <<>>
              /\ \A t \in ThreadIds : thr'[t].pc \in {"none", "stopped"} \/ thr'[t].isr # h]_vars

\* C1, its case: a handle has been released and, after that, edges have been
\* reported on every line
C1_Witness == hnd[1].st = "freed" /\ \A l \in Lines : queue[l] # <<>>

Owns(h, l) == hnd[h].st = "watching" /\ op[h].pc = "idle" /\ l \in Range(hnd[h].lines)

\* C3: at no reachable state do two handles own the same line
C3_OneOwnerPerLine ==
    \A g, h \in HandleIds, l \in Lines : Owns(g, l) /\ Owns(h, l) => g = h

\* C4: a request that returns failure, whatever the cause, leaves no line
\* reserved that was not reserved before, and creates no handle and no watcher
C4_FailedRequestLeavesNothing ==
    [][IsRequest(last') /\ last'.res # "OK"
          => lineSt' = lineSt /\ hnd' = hnd /\ thr' = thr]_vars

\* C4, its case: the reservation succeeded and the spawn of the watcher failed
C4_Witness == last.op = "request" /\ last.res = "EAGAIN"

\* C5: after a change whose re-reservation failed, the handler of the handle
\* is not invoked at any later time
C5_NoInvocationAfterFailedChange ==
    [][\A h \in HandleIds :
          hnd[h].err = "reserve" => Len(delivered'[h]) <= Len(delivered[h])]_vars

\* C6: when change returns an error on a valid handle, no watcher thread of
\* the handle is live and its lines are not reserved
C6_FailedChangeLeavesReleased ==
    last.op = "change" /\ last.res # "OK" /\ last.h # 0
        => WatchersOf(last.h) = {} /\ LinesFree(lineSt, hnd[last.h].lines)

\* C7: a handle has at most one live watcher thread; exactly one, the thread it
\* records, while it is watching and no call is running on it; none once released
C7_OneWatcherPerHandle ==
    \A h \in HandleIds :
        /\ Cardinality(WatchersOf(h)) <= 1
        /\ hnd[h].st = "watching" /\ op[h].pc = "idle" => WatchersOf(h) = {hnd[h].thread}
        /\ hnd[h].st = "freed" => WatchersOf(h) = {}

\* C8: a change whose arguments change nothing (kind -1 or the current kind,
\* handler NULL or the current handler) does not get as far as cancelling the
\* watcher
C8_NoOpChangeTouchesNothing ==
    \A h \in HandleIds :
        op[h].pc = "chg_join" => ~(op[h].et = KeepKind /\ op[h].hd = NullHandler)

\* C9: while a watcher thread of a handle is live, the lines of the handle are
\* reserved for exactly the event kind the handle records
C9_WatcherConfigConsistent ==
    \A t \in ThreadIds :
        Live(t) => \A l \in Range(hnd[thr[t].isr].lines) :
                       lineSt[l].req = hnd[thr[t].isr].event_type

\* a handle that watches with no release or change under way or attempted on
\* its watcher
Quiet(h) ==
    /\ hnd[h].st = "watching"
    /\ op[h].pc = "idle"
    /\ WatchersOf(h) = {hnd[h].thread}
    /\ ~thr[hnd[h].thread].cancel

\* the events handed to the handler of h for line l, in the order of the calls
DeliveredOn(h, l) ==
    LET d == SelectSeq(delivered[h], LAMBDA x : x.line = l)
    IN  [i \in 1..Len(d) |-> d[i].ev]

\* the event the watcher of h has read from line l and not yet handed over
InFlight(h, l) ==
    LET w == thr[hnd[h].thread]
    IN  IF w.pc = "dispatch" /\ w.ln = l THEN <<w.ev>> ELSE <<>>

C11_WatcherStopsOnError ==
    \A t \in ThreadIds : Live(t) /\ ~hnd[thr[t].isr].bulk => thr[t].io = "ok"

\* C12: the error a watcher met is handed to the owner of the handle at the
\* latest by release: a release of a handle whose watcher met an error does
\* not return plain success
C12_WatcherErrorReachesOwner ==
    [][\A h \in HandleIds :
          last'.op = "release" /\ last'.h = h /\ thr[hnd[h].thread].io # "ok"
              => last'.res # "OK"]_vars

\* C13: a release of a handle that a release has already released returns an
\* error and has no effect: no line is released by it and no thread touched
C13_SecondReleaseRejected ==
    [][\A h \in HandleIds :
          hnd[h].st = "freed" /\ last'.op = "release" /\ last'.h = h
              => last'.res = "ECANCEL" /\ lineSt' = lineSt /\ thr' = thr]_vars

\* C14: release, of a line or of a set of lines, first requests the
\* cancellation of the watcher and releases nothing yet, then waits as long as
\* the watcher is live, and only then releases the lines and returns: the step
\* of a release that unreserves the lines of its handle is taken with the
\* watcher of the handle stopped, it leaves every line of the handle free, and
\* it is the step that returns success
C14_ReleaseOrder ==
    [][\A h \in HandleIds :
          /\ op[h].pc = "idle" /\ op'[h].pc = "rel_join"
                => /\ Live(hnd[h].thread) => thr'[hnd[h].thread].cancel
                   /\ lineSt' = lineSt
          /\ op[h].pc = "rel_join" /\ Live(hnd[h].thread)
                => hnd'[h] = hnd[h] /\ op'[h] = op[h]
          /\ op[h].pc = "rel_join" /\ op'[h].pc # "rel_join"
                => /\ ~Live(hnd[h].thread)
                   /\ \A t \in ThreadIds : thr'[t].isr = h => thr'[t].pc \in {"none", "stopped"}
                   /\ \A l \in Range(hnd[h].lines) : lineSt'[l] = FreeLine
                   /\ last' = Return("release", h, "OK")
          /\ last'.op = "release" /\ last'.res = "OK" /\ last'.h = h
                => op[h].pc = "rel_join"]_vars

\* C14, its case: the release of a set of lines waits for the watcher, which
\* is still live inside the handler, and every line of the set is reserved
C14_Witness ==
    \E h \in HandleIds :
        /\ op[h].pc = "rel_join" /\ hnd[h].bulk
        /\ thr[hnd[h].thread].pc = "handler"
        /\ \A l \in Range(hnd[h].lines) : lineSt[l].req = hnd[h].event_type

InWake(t) ==
    /\ thr[t].pc \in {"iter", "dispatch", "handler"}
    /\ ~thr[t].cancel
    /\ hnd[thr[t].isr].bulk

\* the lines of the handler invocations in d after the first n
LinesFrom(d, n) == [i \in 1..(Len(d) - n) |-> d[n + i].line]

\* the lines of the wake that the loop has still to take
Pending(t) == IF thr[t].pc = "handler" THEN Tail(thr[t].evb) ELSE thr[t].evb

\* the lines the wait reported ready, but those whose read failed
Readable(t) == SelectSeq(thr[t].woke, LAMBDA l : l \notin thr[t].skipped)

\* C16: in a wake of a bulk watcher the handler is invoked once for each line
\* the wait reported ready (and whose event could be read), with that line,
\* in the order of the report: the invocations made in the wake, then the
\* lines still to take, are the lines reported; and the watcher goes back to
\* the wait only when none is left to take
C16_OncePerReadyLine ==
    [][\A t \in ThreadIds :
          InWake(t) =>
              /\ LinesFrom(delivered[thr[t].isr], thr[t].base) \o Pending(t) = Readable(t)
              /\ thr'[t].pc = "wait"
                    => thr[t].pc \in {"iter", "handler"} /\ Tail(thr[t].evb) = <<>>]_vars

\* C16, its case: the wait reported two lines and the handler is in its
\* second invocation of the wake
C16_Witness ==
    \E t \in ThreadIds :
        /\ InWake(t) /\ thr[t].pc = "handler"
        /\ Len(thr[t].woke) = 2 /\ Pending(t) = <<>> /\ thr[t].skipped = {}

\* C17: when the read of a ready line fails in a bulk watcher, the handler is
\* not invoked for that line, the thread goes on with the rest of the wake,
\* every other line still to take, and in a wake in which a read has failed
\* the handler is still invoked for every line reported but those whose read
\* failed
C17_FailedReadSkipsOneLine ==
    [][\A t \in ThreadIds :
          /\ InWake(t) /\ thr[t].pc = "iter" /\ thr'[t] # thr[t]
             /\ thr'[t].pc # "dispatch" /\ ~thr'[t].cancel
                => /\ thr'[t].pc = IF Tail(thr[t].evb) = <<>> THEN "wait" ELSE "iter"
                   /\ thr'[t].evb = Tail(thr[t].evb)
                   /\ thr'[t].pc = "iter"
                         => /\ thr'[t].woke = thr[t].woke
                            /\ thr'[t].skipped = thr[t].skipped \cup {Head(thr[t].evb)}
                   /\ delivered' = delivered
          /\ InWake(t) /\ thr[t].skipped # {}
                => LinesFrom(delivered[thr[t].isr], thr[t].base) \o Pending(t) = Readable(t)]_vars

\* C17, its case: the read of the first ready line of a wake has failed and
\* the handler is invoked for the second
C17_Witness ==
    \E t \in ThreadIds :
        /\ InWake(t) /\ thr[t].pc = "handler"
        /\ thr[t].skipped # {} /\ thr[t].ln \notin thr[t].skipped

\* the arguments of a request that the call must refuse
InvalidRequest(arg) ==
    \/ IsNull(arg.lines)
    \/ arg.handler = NullHandler
    \/ arg.event_type \notin ReqKinds

\* C18: a request, of a line or of a set, with a NULL line or set, a NULL
\* handler or an event kind that is not rising, falling or both returns EINVAL
\* without asking the chip for a line and without creating a handle or a watcher
C18_InvalidRequestRefused ==
    [][IsRequest(last') /\ InvalidRequest(last'.arg)
          => /\ last'.res = "EINVAL"
             /\ ~last'.chip
             /\ lineSt' = lineSt /\ hnd' = hnd /\ thr' = thr]_vars

\* C18, its case: a request of a free line with a handler and with a kind that
\* is not an event request has returned
C18_Witness ==
    /\ IsRequest(last)
    /\ ~IsNull(last.arg.lines) /\ last.arg.handler # NullHandler
    /\ last.arg.event_type = BadKind
    /\ \A l \in Range(last.arg.lines) : lineSt[l] = FreeLine

\* C19: when a change returns success, the kind of the handle is the kind
\* passed, or the one it had when -1 was passed, and its handler the handler
\* passed, or the one it had when NULL was passed; when the change has
\* restarted the watcher, the handle watches with the new thread; and every
\* invocation a watcher makes is of the handler the handle has
C19_ChangeApplied ==
    [][\A h \in HandleIds :
          /\ last'.op = "change" /\ last'.res = "OK" /\ last'.h = h
                => /\ hnd'[h].event_type =
                          IF last'.arg.event_type = KeepKind THEN hnd[h].event_type
                          ELSE last'.arg.event_type
                   /\ hnd'[h].handler =
                          IF last'.arg.handler = NullHandler THEN hnd[h].handler
                          ELSE last'.arg.handler
                   /\ op[h].pc # "idle"
                         => /\ hnd'[h].st = "watching"
                            /\ thr'[hnd'[h].thread].isr = h
                            /\ thr'[hnd'[h].thread].pc = "wait"
          /\ Len(delivered'[h]) > Len(delivered[h])
                => delivered'[h][Len(delivered'[h])].handler = hnd[h].handler]_vars

\* C19, its case: a handle requested for both edges with handler f has been
\* changed to falling edges and handler g, no change of it has failed, and
\* its watcher has invoked g
C19_Witness ==
    \E h \in HandleIds :
        /\ hnd[h].st = "watching" /\ hnd[h].err = "none"
        /\ hnd[h].event_type = "FALLING" /\ hnd[h].handler = "g"
        /\ delivered[h] # <<>> /\ delivered[h][1].handler = "g"

\* C20: a watcher that runs stops running only through a cancellation, and a
\* cancellation is requested of it only by a release or a change that starts
\* on its own handle in that step: never by itself, by a timeout, or by a call
\* on another handle
C20_StopsOnlyOnOwnReleaseOrChange ==
    [][\A t \in ThreadIds :
          /\ Live(t) /\ thr'[t].pc \in {"none", "stopped"} => thr[t].cancel
          /\ Live(t) /\ ~thr[t].cancel /\ thr'[t].cancel
                => /\ op[thr[t].isr].pc = "idle"
                   /\ op'[thr[t].isr].pc \in {"rel_join", "chg_join"}
                   /\ hnd[thr[t].isr].thread = t]_vars

\* the watcher threads of handle h that are inside the handler
InHandler(h) == { t \in ThreadIds : thr[t].isr = h /\ thr[t].pc = "handler" }

\* C21: the handler invocations of a handle never overlap, across a change
\* included: at most one thread of the handle is inside the handler, a thread
\* enters the handler only when no thread of the handle is inside it, and no
\* event leaves the queue of a line of the handle while a thread of the
\* handle is inside the handler
C21_InvocationsNeverOverlap ==
    [][\A h \in HandleIds :
          /\ Cardinality(InHandler(h)) <= 1
          /\ Len(delivered'[h]) > Len(delivered[h]) => InHandler(h) = {}
          /\ \A l \in Range(hnd[h].lines) :
                 Len(queue'[l]) < Len(queue[l]) => InHandler(h) = {}]_vars

\* C21, its case: the handle was changed to a new handler and the watcher
\* started by the change (not the first thread) is inside the handler
C21_Witness ==
    \E h \in HandleIds :
        /\ hnd[h].st = "watching" /\ hnd[h].handler = "g"
        /\ hnd[h].thread > 1
        /\ thr[hnd[h].thread].pc = "handler"

\* an event is ready on the line of handle h and its watcher waits for it
EventWaits(h) ==
    /\ hnd[h].st = "watching" /\ op[h].pc = "idle"
    /\ thr[hnd[h].thread].isr = h /\ Running(hnd[h].thread, "wait")
    /\ queue[hnd[h].lines[1]] # <<>>

\* C22: two handles are independent.  Whatever the handler of the other handle
\* does (no return of a handler is assumed), an event that is ready for the
\* waiting watcher of a handle is handed to its handler, unless a release or a
\* change of this handle stops the watcher first; and a release or a change of
\* a handle that waits for its watcher comes to its end.
C22_HandlesIndependent ==
    \A h \in HandleIds :
        /\ \A n \in 0..MaxEdges :
              (EventWaits(h) /\ Len(delivered[h]) = n)
                 ~> (Len(delivered[h]) > n \/ op[h].pc # "idle" \/ hnd[h].st # "watching")
        /\ (op[h].pc = "rel_join") ~> (hnd[h].st = "freed")
        /\ (op[h].pc \in {"chg_join", "chg_request"}) ~> (op[h].pc = "idle")

\* C22, its case: the handler of one handle is still running on an edge and
\* an edge that came later has been handed to the handler of the other
C22_Witness ==
    \E h \in HandleIds, t \in ThreadIds :
        /\ thr[t].pc = "handler" /\ thr[t].isr # h
        /\ hnd[h].st = "watching"
        /\ delivered[h] # <<>>
        /\ delivered[h][Len(delivered[h])].ev.seq > thr[t].ev.seq

\* C23: every event a watcher has read is handed to the handler, exactly
\* once: a thread that holds an event it has read leaves that point only by
\* calling the handler of its handle with this event, a cancellation that
\* arrives between the read and the call included
C23_ReadEventsDelivered ==
    [][\A t \in ThreadIds :
          thr[t].pc = "dispatch" /\ thr'[t].pc # "dispatch"
             => /\ thr'[t].pc = "handler"
                /\ delivered'[thr[t].isr] =
                      Append(delivered[thr[t].isr],
                             [handler |-> hnd[thr[t].isr].handler, line |-> thr[t].ln,
                              ev |-> thr[t].ev])]_vars

\* handle h has a live watcher
Watched(h) ==
    /\ hnd[h].st = "watching"
    /\ hnd[h].thread \in ThreadIds
    /\ thr[hnd[h].thread].isr = h /\ Live(hnd[h].thread)

\* C24: no reservation is leaked: whenever no call is in progress, a line that
\* is reserved belongs to a handle that has a live watcher
C24_NoReservationLeaked ==
    (\A h \in HandleIds : op[h].pc = "idle")
        => \A l \in Lines :
              lineSt[l] # FreeLine
                 => \E h \in HandleIds : l \in Range(hnd[h].lines) /\ Watched(h)

\* C25 as stated: release is the only operation that takes a reserved line
\* back to unreserved; the line stays reserved through every change, whatever
\* its outcome
C25_OnlyReleaseFreesLine ==
    [][\A l \in Lines :
          lineSt[l] # FreeLine /\ lineSt'[l] = FreeLine
             => last'.op = "release" /\ last'.res = "OK"]_vars

\* C25 amended: a reserved line goes back to unreserved only at the end of a
\* release of a handle of this line, in a change of such a handle to another
\* event kind (which releases the line to request it again), or in a change
\* of such a handle whose new watcher cannot be started
C25_FreedByReleaseOrChange ==
    [][\A l \in Lines :
          lineSt[l] # FreeLine /\ lineSt'[l] = FreeLine
             => \E h \in HandleIds :
                   /\ l \in Range(hnd[h].lines)
                   /\ \/ op[h].pc = "rel_join" /\ last' = Return("release", h, "OK")
                      \/ /\ op[h].pc = "chg_join" /\ op[h].et # KeepKind
                         /\ op'[h].pc = "chg_request"
                      \/ /\ op[h].pc = "chg_join" /\ op[h].et = KeepKind
                         /\ last' = Return("change", h, "EAGAIN")]_vars

\* C25, its case: a change has ended and left the line of its handle
\* unreserved
C25_Witness ==
    \E h \in HandleIds :
        /\ last.op = "change" /\ last.h = h /\ last.res # "OK"
        /\ hnd[h].st = "failed"
        /\ \A l \in Range(hnd[h].lines) : lineSt[l] = FreeLine

WatcherFields(isr) == <<isr.lines, isr.handler, isr.event_type>>

\* C29: the fields of a handle that its watcher reads (line, handler, event
\* kind) are written only while no watcher thread of this handle is live
C29_FieldsWrittenWithoutWatcher ==
    [][\A h \in HandleIds :
          WatcherFields(hnd'[h]) # WatcherFields(hnd[h])
             => \A t \in ThreadIds : thr[t].isr = h => ~Live(t)]_vars

\* C29, its case: a change has written a new handler and a new event kind
\* into a handle that had a watcher, and has started the next watcher
C29_Witness ==
    \E h \in HandleIds :
        /\ last.op = "change" /\ last.h = h /\ last.res = "OK"
        /\ last.arg.handler = "g" /\ last.arg.event_type = "FALLING"
        /\ hnd[h].handler = "g" /\ hnd[h].event_type = "FALLING"
        /\ Watched(h)

\* a change of handle h, no change of which has failed before, that leaves
\* the event kind as it is (called with -1 or with the current kind) has
\* cancelled the watcher and not yet returned
HandlerOnlyChange(h) ==
    /\ hnd[h].st = "watching" /\ hnd[h].err = "none"
    /\ op[h].pc = "chg_join" /\ op[h].et = KeepKind

\* C30 as stated: a change of the handler only never releases the line: the
\* reservation and the recorded kind are the same throughout, only the thread
\* and the handler change
C30_HandlerOnlyChangeNeverReleases ==
    [][\A h \in HandleIds :
          HandlerOnlyChange(h)
             => /\ \A l \in Range(hnd[h].lines) : lineSt'[l] = lineSt[l]
                /\ hnd'[h].event_type = hnd[h].event_type
                /\ hnd'[h].lines = hnd[h].lines]_vars

\* C30 amended: a change of the handler only does not release and request
\* the line again and leaves the recorded kind as it is; the reservation is
\* the same throughout, except that the line is released when the new
\* watcher cannot be started and the change returns its error
C30_HandlerOnlyChangeKeepsLine ==
    [][\A h \in HandleIds :
          HandlerOnlyChange(h)
             => /\ hnd'[h].event_type = hnd[h].event_type
                /\ hnd'[h].lines = hnd[h].lines
                /\ op'[h].pc \in {"chg_join", "idle"}
                /\ \/ \A l \in Range(hnd[h].lines) : lineSt'[l] = lineSt[l]
                   \/ /\ last' = Return("change", h, "EAGAIN")
                      /\ hnd'[h].st = "failed"
                      /\ \A l \in Range(hnd[h].lines) : lineSt'[l] = FreeLine]_vars

\* C30, its case: a change of the handler only has returned 0, the handle
\* has the new handler and a watcher, and its line is reserved as before
C30_Witness ==
    \E h \in HandleIds :
        /\ last = ChangeDone(h, KeepKind, "g")
        /\ hnd[h].handler = "g" /\ hnd[h].err = "none"
        /\ Watched(h) /\ hnd[h].thread > 1
        /\ \A l \in Range(hnd[h].lines) : lineSt[l].req = hnd[h].event_type

\* C27: with TLC1543_OPT_WAIT, tlc1543_request_lines does not go on to
\* request a line until all three are free: when its wait loop ends, each
\* of the three lines is unused
C27_WaitEndsWhenAllFree ==
    [][adc.pc = "wait" /\ adc'.pc # "wait"
          => \A p \in Pins : gpiod_line_is_free(adc, p)]_vars

\* C28: after tlc1543_init with TLC1543_OPT_EXCLUSIVE has returned
\* TLC1543_SUCCESS, and until tlc1543_delete, the three lines are requested
\* through this struct; when a request fails init does not return success
C28_ExclusiveInitHoldsLines ==
    (adc.st = "init" /\ "EXCLUSIVE" \in adc.options)
        => \A p \in Pins : adc.pin[p] = "tlc"

\* C31: after a change has returned 0 with a new handler, the handle holds
\* the new handler and no invocation of its watcher has been made yet; and
\* at any time every invocation made by the watcher of a watching handle
\* called the handler the handle holds, so the old handler is the only one
\* called before the change and the new one the only one called after it
C31_NewHandlerAfterChange ==
    [][\A h \in HandleIds :
          /\ hnd'[h].st = "watching"
                => \A i \in 1..Len(delivered'[h]) :
                      delivered'[h][i].handler = hnd'[h].handler
          /\ (/\ last'.op = "change" /\ last'.h = h /\ last'.res = "OK"
              /\ last'.arg.handler # NullHandler)
                => /\ hnd'[h].handler = last'.arg.handler
                   /\ hnd[h].handler # last'.arg.handler
                   /\ delivered'[h] = <<>>]_vars

\* C31, its case: the watcher started by a change to the new handler has
\* called it
C31_Witness ==
    \E h \in HandleIds :
        /\ hnd[h].st = "watching" /\ hnd[h].handler = "g" /\ hnd[h].thread > 1
        /\ delivered[h] # <<>>
        /\ delivered[h][1].handler = "g"

\* C32: a change of the handler only loses no event: when it returns 0, what
\* the old watcher has handed to the handler and what still waits in the
\* queue for the new watcher is all that the chip has reported on the line,
\* an event the old watcher had read when it was cancelled included
C32_HandlerOnlyChangeLosesNoEvent ==
    [][\A h \in HandleIds :
          HandlerOnlyChange(h) /\ last' = ChangeDone(h, op[h].et, op[h].hd)
             => \A l \in Range(hnd[h].lines) :
                   DeliveredOn(h, l) \o queue[l] = reported[l]]_vars

\* C33: while a change of the event kind of a handle is in progress the line
\* stays the handle's: between the release of the line and the request that
\* follows, no request of another caller has got the line, so none can make
\* the request of the change fail
C33_LineStaysOwnedDuringChange ==
    \A h \in HandleIds :
        (op[h].pc = "chg_request" /\ hnd[h].st = "watching" /\ hnd[h].err = "none")
            => \A l \in Range(hnd[h].lines) :
                  /\ lineSt[l] = FreeLine
                  /\ \A g \in HandleIds \ {h} :
                        hnd[g].st = "watching" => l \notin Range(hnd[g].lines)

\* C34: a change of a watching handle to an event kind that is neither -1 nor
\* an edge kind returns -1 and leaves the watch as it was: when the call
\* returns the watcher of the handle is alive and its lines are reserved under
\* the kind the handle had
C34_BadKindChangeKeepsWatch ==
    [][\A h \in HandleIds :
          (/\ hnd[h].st = "watching" /\ hnd[h].err = "none"
           /\ op[h].pc # "idle" /\ op[h].et = BadKind
           /\ last'.op = "change" /\ last'.h = h)
             => /\ last'.res # "OK"
                /\ Watched(h)' /\ ~thr'[hnd'[h].thread].cancel
                /\ hnd'[h] = hnd[h]
                /\ \A l \in Range(hnd[h].lines) :
                      lineSt'[l].req = hnd[h].event_type]_vars

\* C35: when pthread_cancel fails inside release, the release returns -1 and
\* changes nothing: the lines of the handle are not released, the handle is
\* not freed and its fields are as they were, and its watcher is untouched
C35_FailedCancelChangesNothing ==
    [][\A h \in HandleIds :
          (/\ hnd[h].st # "freed"
           /\ last'.op = "release" /\ last'.h = h /\ last'.res = "ECANCEL")
             => /\ hnd' = hnd /\ lineSt' = lineSt /\ thr' = thr /\ op' = op
                /\ queue' = queue /\ reported' = reported
                /\ delivered' = delivered]_vars

\* C35, its case: the release of a handle with a live watcher has returned the
\* error of pthread_cancel; the handle watches and its lines are reserved
C35_Witness ==
    \E h \in HandleIds :
        /\ last.op = "release" /\ last.h = h /\ last.res = "ECANCEL"
        /\ Watched(h) /\ ~thr[hnd[h].thread].cancel
        /\ \A l \in Range(hnd[h].lines) : lineSt[l].req = hnd[h].event_type

\* C36: release and change always terminate: a call that has asked for the
\* cancellation of the watcher of its handle returns, wherever the watcher
\* was at that moment (in the wait, holding an event it has read, inside the
\* handler).  The handler is not even required to return.
C36_ReleaseAndChangeReturn ==
    \A h \in HandleIds :
        \A pc \in {"wait", "dispatch", "handler"} :
            (op[h].pc \in {"rel_join", "chg_join"} /\ thr[hnd[h].thread].pc = pc)
                ~> (op[h].pc = "idle" /\ last.h = h /\ last.op \in {"release", "change"})

\* C36, its case: a release or a change waits for a watcher that was inside
\* the handler when its cancellation was requested
C36_Witness ==
    \E h \in HandleIds :
        /\ op[h].pc \in {"rel_join", "chg_join"}
        /\ thr[hnd[h].thread].pc = "handler" /\ thr[hnd[h].thread].cancel

\* C37: after a change of the event kind the lines of the handle are reserved
\* under the consumer label that was given to the request of the handle
C37_ChangeKeepsConsumer ==
    [][\A h \in HandleIds :
          (/\ op[h].pc = "chg_request" /\ hnd[h].err = "none"
           /\ last'.op = "change" /\ last'.h = h /\ last'.res = "OK")
             => \A l \in Range(hnd[h].lines) :
                   /\ lineSt'[l].req = op[h].et
                   /\ lineSt'[l].consumer = Consumer]_vars

\* C38: on a converter opened without TLC1543_OPT_EXCLUSIVE, whenever
\* tlc1543_get_sample has returned, with a sample or with an error code, none
\* of the three lines is left reserved by the converter
C38_SampleLeavesNoLineReserved ==
    (/\ adc.st = "init" /\ "EXCLUSIVE" \notin adc.options
     /\ adc.call = "sample" /\ adc.pc = "idle" /\ adc.ret # "none")
        => \A p \in Pins : adc.pin[p] # "tlc"

====
